---------------------------- MODULE Spec2Model ----------------------------
(***************************************************************************)
(* Model of src/app.py: the market research agent.                        *)
(*                                                                         *)
(* Text is a sequence of one-character strings, so that splitting,         *)
(* stripping, slicing and digit extraction are computed character by       *)
(* character as the Python code computes them.  An optional integer        *)
(* (Python's None or an int) is None == <<>> or Some(n) == <<n>>.          *)
(***************************************************************************)
EXTENDS Integers, Sequences, FiniteSets, TLC

VARIABLES
    pc,            \* position of the "Run Research" handler / of a text probe
    product_name,  \* st.text_input value used by the run
    calls,         \* queries handed to client.search, in order
    failed,        \* per call: did client.search raise
    response,      \* outcome of the latest client.search call
    returned,      \* per call: what tavily_search returned to market_research
    competitors,   \* market_research: competitors
    idx,           \* market_research: position of the for loop
    comp_data,     \* market_research: comp_data of the iteration in progress
    report,        \* market_research: report["competitors"]
    avg_prices,    \* handler: avg_prices dict, as (name, price) items in insertion order
    chart,         \* handler: the bar chart drawn (or not)
    story,         \* generate_pdf: story
    text,          \* input of a helper function (clean_name / extract_price)
    out            \* output of that helper function

vars == <<pc, product_name, calls, failed, response, returned, competitors, idx,
          comp_data, report, avg_prices, chart, story, text, out>>

---------------------------------------------------------------------------
(* Bounds of the model *)

\* longest title handed to clean_name on its own
MaxNameLen == 4
\* longest text handed to extract_price on its own
MaxPriceLen == 7
\* how many results the provider ranks for the competitor query
MaxCompHits == 4
\* how many characters the long fixture content has beyond the snippet length
LongExtra == 3

(* Program constants *)

\* competitors_data[:3]
TopN == 3
\* f["content"][:120]
SnippetLen == 120
\* \d{2,6}
MinDigits == 2
MaxDigits == 6
\* tavily_search(query, max_results=5)
max_results == 5

---------------------------------------------------------------------------
(* Generic helpers *)

None == <<>>
Some(n) == <<n>>

Min(a, b) == IF a < b THEN a ELSE b

SeqsUpTo(S, n) == UNION {[1..k -> S] : k \in 0..n}

RECURSIVE SumSeq(_)
SumSeq(s) == IF s = <<>> THEN 0 ELSE s[1] + SumSeq(Tail(s))

RECURSIVE Flatten(_)
Flatten(ss) == IF ss = <<>> THEN <<>> ELSE ss[1] \o Flatten(Tail(ss))

\* Python s[:n] for n >= 0
Slice(s, n) == SubSeq(s, 1, Min(n, Len(s)))

DigitChars == <<"0", "1", "2", "3", "4", "5", "6", "7", "8", "9">>
Digits == {DigitChars[i] : i \in 1..10}
DigitVal(c) == (CHOOSE i \in 1..10 : DigitChars[i] = c) - 1

\* Python int() on a string of decimal digits
RECURSIVE int(_)
int(ds) ==
    IF ds = <<>> THEN 0
    ELSE int(SubSeq(ds, 1, Len(ds) - 1)) * 10 + DigitVal(ds[Len(ds)])

\* Python str() of a non-negative int
RECURSIVE str(_)
str(n) ==
    IF n < 10 THEN <<DigitChars[n + 1]>>
    ELSE str(n \div 10) \o <<DigitChars[(n % 10) + 1]>>

\* Python f"{n:,}": decimal digits grouped in threes from the right
RECURSIVE Group3(_)
Group3(ds) ==
    IF Len(ds) <= 3 THEN ds
    ELSE Group3(SubSeq(ds, 1, Len(ds) - 3)) \o <<",">> \o SubSeq(ds, Len(ds) - 2, Len(ds))

FormatThousands(n) == Group3(str(n))

---------------------------------------------------------------------------
(* clean_name *)

Separators == {"|", "-", ":"}
Whitespace == {" ", "\t", "\n", "\r", "\f"}

\* re.split(pattern, text)[0]: the text before the first character of seps
RECURSIVE SplitFirst(_, _)
SplitFirst(s, seps) ==
    IF s = <<>> \/ s[1] \in seps THEN <<>>
    ELSE <<s[1]>> \o SplitFirst(Tail(s), seps)

RECURSIVE lstrip(_)
lstrip(s) == IF s # <<>> /\ s[1] \in Whitespace THEN lstrip(Tail(s)) ELSE s

RECURSIVE rstrip(_)
rstrip(s) ==
    IF s # <<>> /\ s[Len(s)] \in Whitespace THEN rstrip(SubSeq(s, 1, Len(s) - 1)) ELSE s

strip(s) == rstrip(lstrip(s))

\* a plausible slip: the ':' alternative left out of the pattern, and only lstrip
clean_name_no_colon(t) == lstrip(SplitFirst(t, {"|", "-"}))

clean_name(t) == strip(SplitFirst(t, Separators))

---------------------------------------------------------------------------
(* extract_price *)

\* text.replace(",", "")
StripCommas(t) == SelectSeq(t, LAMBDA c : c # ",")

\* greedy \d{..n} at position i: how many digits (at most n) start at i
RECURSIVE DigitRun(_, _, _)
DigitRun(s, i, n) ==
    IF n = 0 \/ i > Len(s) \/ s[i] \notin Digits THEN 0
    ELSE 1 + DigitRun(s, i + 1, n - 1)

\* re.search(r"(\d{2,6})", s): leftmost position where the pattern matches, greedy
re_search(s) ==
    LET starts == {i \in 1..Len(s) : DigitRun(s, i, MaxDigits) >= MinDigits}
    IN  IF starts = {} THEN None
        ELSE LET i == CHOOSE j \in starts : \A k \in starts : j <= k
             IN  Some(SubSeq(s, i, i + DigitRun(s, i, MaxDigits) - 1))

\* a plausible slip: the commas are not removed before the search
extract_price_keep_commas(t) ==
    LET match == re_search(t)
    IN  IF match # None THEN Some(int(match[1])) ELSE None

extract_price(t) ==
    LET match == re_search(StripCommas(t))
    IN  IF match # None THEN Some(int(match[1])) ELSE None

---------------------------------------------------------------------------
(* The search provider (external): what client.search may do *)

\* st.text_input("Enter Product Name:", ...)
Products == {<<"N", "e", "x", "u", "s", " ", "S", "m", "a", "r", "t", "w", "a", "t", "c", "h", " ", "P", "r", "o", " ", "2">>}

Result(t, c) == [title |-> t, content |-> c]

\* a content longer than the snippet length, with a digit run across the cut
LongContent ==
    [i \in 1..(SnippetLen + LongExtra) |->
        IF i < SnippetLen - 1 THEN "x" ELSE DigitChars[(i % 10) + 1]]

CompRanking ==
    << Result(<<"A", "c", "m", "e", " ", "W", "a", "t", "c", "h", " ", "X", " ", "|", " ", "B", "e", "s", "t", " ", "D", "e", "a", "l", "s", " ", "2", "0", "2", "5">>, <<"t", "o", "p", " ", "p", "i", "c", "k">>),
       Result(<<"Z", "e", "d", " ", "F", "i", "t", ":", " ", "r", "e", "v", "i", "e", "w">>, <<"r", "u", "n", "n", "e", "r", " ", "u", "p">>),
       Result(<<"A", "c", "m", "e", " ", "W", "a", "t", "c", "h", " ", "X", " ", "-", " ", "o", "f", "f", "i", "c", "i", "a", "l">>, <<"s", "t", "o", "r", "e">>),
       Result(<<" ", "O", "r", "b", " ", "2", " ">>, <<"b", "u", "d", "g", "e", "t">>),
       Result(<<"P", "i", "x", "-", "4">>, <<"n", "e", "w">>),
       Result(<<"K", "i", "t", "e">>, <<"o", "l", "d">>) >>

FeatureRanking ==
    << Result(<<"S", "p", "e", "c", "s">>, <<"A", "M", "O", "L", "E", "D", ",", " ", "G", "P", "S", ",", " ", "7", "-", "d", "a", "y", " ", "b", "a", "t", "t", "e", "r", "y">>),
       Result(<<"D", "e", "e", "p", " ", "d", "i", "v", "e">>, LongContent) >>

PriceRankings ==
    { << Result(<<"D", "a", "r", "a", "z">>, <<"R", "s", ".", " ", "1", "2", ",", "5", "0", "0", " ", "o", "n", "l", "y">>),
         Result(<<"S", "h", "o", "p">>, <<"n", "o", " ", "p", "r", "i", "c", "e", " ", "l", "i", "s", "t", "e", "d">>),
         Result(<<"M", "a", "l", "l">>, <<"P", "K", "R", " ", "1", "5">>) >>,
      << Result(<<"P", "r", "o", "m", "o">>, <<"R", "s", ".", " ", "0", "0", " ", "d", "o", "w", "n", " ", "p", "a", "y", "m", "e", "n", "t">>) >> }

ReviewRanking ==
    << Result(<<"F", "o", "r", "u", "m">>, LongContent),
       Result(<<"B", "l", "o", "g">>, <<"4", ".", "5", "/", "5", " ", "-", " ", "g", "r", "e", "a", "t", " ", "v", "a", "l", "u", "e">>) >>

Messages == {<<"C", "o", "n", "n", "e", "c", "t", "i", "o", "n", " ", "t", "i", "m", "e", "d", " ", "o", "u", "t">>}

Raises(m) == [kind |-> "raise", message |-> m]
Responds(d) == [kind |-> "ok", response |-> d]

\* the provider fails, answers without a "results" key, or answers with at most
\* max_results ranked results
Outcomes(rankings) ==
    {Raises(m) : m \in Messages}
    \cup {Responds([answer |-> <<>>])}
    \cup {Responds([results |-> <<>>])}
    \cup {Responds([results |-> Slice(r, max_results)]) : r \in rankings}

CompOutcomes == Outcomes({Slice(CompRanking, n) : n \in 1..MaxCompHits})
FeatureOutcomes == Outcomes({FeatureRanking})
PriceOutcomes == Outcomes(PriceRankings)
ReviewOutcomes == Outcomes({ReviewRanking})

---------------------------------------------------------------------------
(* tavily_search *)

Return(v) == [raised |-> FALSE, value |-> v]
Raise(e) == [raised |-> TRUE, exc |-> e]

\* dict.get(key, default)
get(d, key, default) == IF key \in DOMAIN d THEN d[key] ELSE default

ErrorTitle == <<"E", "r", "r", "o", "r">>

\* a plausible slip: no try/except, the provider's exception propagates
tavily_search_no_except(o) ==
    IF o.kind = "raise" THEN Raise(o.message)
    ELSE Return(get(o.response, "results", <<>>))

\* a plausible slip: a failed search gives no results instead of the sentinel
tavily_search_empty_on_error(o) ==
    IF o.kind = "raise" THEN Return(<<>>)
    ELSE Return(get(o.response, "results", <<>>))

tavily_search(o) ==
    IF o.kind = "raise" THEN Return(<<Result(ErrorTitle, o.message)>>)
    ELSE Return(get(o.response, "results", <<>>))

---------------------------------------------------------------------------
(* market_research *)

competitors_query(product) ==
    <<"T", "o", "p", " ", "s", "m", "a", "r", "t", "w", "a", "t", "c", "h", "e", "s", " ", "c", "o", "m", "p", "e", "t", "i", "n", "g", " ", "w", "i", "t", "h", " ">> \o product \o <<" ", "i", "n", " ", "2", "0", "2", "5">>
features_query(comp) == comp \o <<" ", "s", "m", "a", "r", "t", "w", "a", "t", "c", "h", " ", "f", "e", "a", "t", "u", "r", "e", "s", " ", "2", "0", "2", "5">>
price_query(comp) == comp \o <<" ", "s", "m", "a", "r", "t", "w", "a", "t", "c", "h", " ", "p", "r", "i", "c", "e", " ", "i", "n", " ", "P", "a", "k", "i", "s", "t", "a", "n", " ", "2", "0", "2", "5", " ", "P", "K", "R">>
reviews_query(comp) == comp \o <<" ", "s", "m", "a", "r", "t", "w", "a", "t", "c", "h", " ", "c", "u", "s", "t", "o", "m", "e", "r", " ", "r", "e", "v", "i", "e", "w", "s", " ", "2", "0", "2", "5">>

\* a plausible slip: one result too many is kept
TopCompetitors_off_by_one(data) ==
    [k \in 1..Min(TopN + 1, Len(data)) |-> clean_name(data[k].title)]

\* [clean_name(item["title"]) for item in competitors_data[:3]]
TopCompetitors(data) ==
    [k \in 1..Min(TopN, Len(data)) |-> clean_name(data[k].title)]

\* a plausible slip: the content is stored whole
Snippet_untruncated(r) == r.title \o <<":", " ">> \o r.content

\* f["title"] + ": " + f["content"][:120]
Snippet(r) == r.title \o <<":", " ">> \o Slice(r.content, SnippetLen)

Snippets(results) == [k \in 1..Len(results) |-> Snippet(results[k])]

\* Python truthiness of an optional int: None and 0 are false
Truthy(p) == p # None /\ p[1] # 0

\* the filter written as "if p is not None"
KeepExtracted_not_none(p) == p # None

\* [p for p in extracted_prices if p]
KeepExtracted(p) == Truthy(p)

\* sum(extracted_prices) // len(extracted_prices)
Mean(ps) == SumSeq(ps) \div Len(ps)

\* lines 65-68: the avg_price of one competitor
AvgPrice(price_results) ==
    LET extracted == [k \in 1..Len(price_results) |-> extract_price(price_results[k].content)]
        kept == SelectSeq(extracted, KeepExtracted)
        extracted_prices == [k \in 1..Len(kept) |-> kept[k][1]]
    IN  IF extracted_prices # <<>> THEN Some(Mean(extracted_prices)) ELSE None

NewCompData(comp) ==
    [name |-> comp, features |-> <<>>, price |-> <<>>, reviews |-> <<>>, avg_price |-> None]

---------------------------------------------------------------------------
(* generate_pdf *)

Paragraph(t, style) == [kind |-> "Paragraph", text |-> t, style |-> style]
Spacer == [kind |-> "Spacer"]

Bullets(items) == [k \in 1..Len(items) |-> Paragraph(<<"U+2022", " ">> \o items[k], "Normal")]

PriceLine(comp) ==
    Paragraph(<<"U+1F4B0">> \o <<" ", "E", "s", "t", "i", "m", "a", "t", "e", "d", " ", "A", "v", "g", " ", "P", "r", "i", "c", "e", ":", " ", "P", "K", "R", " ">> \o FormatThousands(comp.avg_price[1]),
              "Normal")

\* if comp["avg_price"]: story.append(...)
PriceLines(comp) == IF Truthy(comp.avg_price) THEN <<PriceLine(comp)>> ELSE <<>>

\* lines 89-106: what one competitor adds to the story
CompStory(comp) ==
    <<Paragraph(<<"U+1F50E">> \o <<" ", "C", "o", "m", "p", "e", "t", "i", "t", "o", "r", ":", " ">> \o comp.name, "Heading2")>>
    \o PriceLines(comp)
    \o <<Paragraph(<<"K", "e", "y", " ", "F", "e", "a", "t", "u", "r", "e", "s", ":">>, "Heading3")>> \o Bullets(comp.features)
    \o <<Paragraph(<<"P", "r", "i", "c", "e", "s", ":">>, "Heading3")>> \o Bullets(comp.price)
    \o <<Paragraph(<<"C", "u", "s", "t", "o", "m", "e", "r", " ", "R", "e", "v", "i", "e", "w", "s", ":">>, "Heading3")>> \o Bullets(comp.reviews)
    \o <<Spacer>>

generate_pdf(rep, product) ==
    << Paragraph(<<"U+1F4CA">> \o <<" ", "M", "a", "r", "k", "e", "t", " ", "A", "n", "a", "l", "y", "s", "i", "s", " ", "R", "e", "p", "o", "r", "t", " ">> \o <<"U+2014", " ">> \o product,
                 "Heading1"),
       Spacer >>
    \o Flatten([k \in 1..Len(rep) |-> CompStory(rep[k])])

---------------------------------------------------------------------------
(* The "Run Research" handler: display *)

\* avg_prices[name] = price on a dict kept as items in insertion order
DictSet(d, name, price) ==
    IF \E i \in 1..Len(d) : d[i][1] = name
    THEN [i \in 1..Len(d) |-> IF d[i][1] = name THEN <<name, price>> ELSE d[i]]
    ELSE Append(d, <<name, price>>)

\* lines 134-139: avg_prices after the loop over report["competitors"]
RECURSIVE AvgPrices(_)
AvgPrices(rep) ==
    IF rep = <<>> THEN <<>>
    ELSE LET d == AvgPrices(SubSeq(rep, 1, Len(rep) - 1))
             comp == rep[Len(rep)]
         IN  IF Truthy(comp.avg_price) THEN DictSet(d, comp.name, comp.avg_price[1]) ELSE d

NoChart == [drawn |-> FALSE, bars |-> <<>>]

\* lines 154-160: ax.bar(avg_prices.keys(), avg_prices.values()), one bar per item
BarChart(d) ==
    IF d # <<>>
    THEN [drawn |-> TRUE, bars |-> [i \in 1..Len(d) |-> [label |-> d[i][1], height |-> d[i][2]]]]
    ELSE NoChart

---------------------------------------------------------------------------
(* State machine of one "Run Research" click *)

Fresh ==
    /\ calls = <<>>
    /\ failed = <<>>
    /\ response = Responds([results |-> <<>>])
    /\ returned = <<>>
    /\ competitors = <<>>
    /\ idx = 0
    /\ comp_data = NewCompData(<<>>)
    /\ report = <<>>
    /\ avg_prices = <<>>
    /\ chart = NoChart
    /\ story = <<>>

Init ==
    /\ pc = "idle"
    /\ product_name = <<>>
    /\ Fresh
    /\ text = <<>>
    /\ out = None

\* line 125-129: the button is clicked with some product name; the script reruns
Click ==
    /\ pc \in {"idle", "done"}
    /\ \E p \in Products : product_name' = p
    /\ pc' = "competitors"
    /\ calls' = <<>>
    /\ failed' = <<>>
    /\ response' = Responds([results |-> <<>>])
    /\ returned' = <<>>
    /\ competitors' = <<>>
    /\ idx' = 0
    /\ comp_data' = NewCompData(<<>>)
    /\ report' = <<>>
    /\ avg_prices' = <<>>
    /\ chart' = NoChart
    /\ story' = <<>>
    /\ UNCHANGED <<text, out>>

\* a plausible slip: a failed call is issued a second time
Call_retry(query, o) ==
    /\ calls' = IF o.kind = "raise" THEN calls \o <<query, query>> ELSE Append(calls, query)
    /\ failed' = Append(failed, o.kind = "raise")
    /\ response' = o

\* client.search(query=query, max_results=max_results), once per tavily_search
Call(query, o) ==
    /\ calls' = Append(calls, query)
    /\ failed' = Append(failed, o.kind = "raise")
    /\ response' = o

\* an exception leaves market_research and the handler
Propagate ==
    /\ pc' = "raised"
    /\ UNCHANGED <<returned, competitors, idx, comp_data, report>>

\* lines 47-51
SearchCompetitors ==
    /\ pc = "competitors"
    /\ \E o \in CompOutcomes :
         LET r == tavily_search(o) IN
         /\ Call(competitors_query(product_name), o)
         /\ IF r.raised THEN Propagate
            ELSE /\ returned' = Append(returned, r.value)
                 /\ competitors' = TopCompetitors(r.value)
                 /\ report' = <<>>
                 /\ idx' = 1
                 /\ pc' = IF competitors' = <<>> THEN "display" ELSE "features"
                 /\ UNCHANGED comp_data
    /\ UNCHANGED <<product_name, avg_prices, chart, story, text, out>>

\* lines 53-58
SearchFeatures ==
    /\ pc = "features"
    /\ \E o \in FeatureOutcomes :
         LET comp == competitors[idx]
             r == tavily_search(o) IN
         /\ Call(features_query(comp), o)
         /\ IF r.raised THEN Propagate
            ELSE /\ returned' = Append(returned, r.value)
                 /\ comp_data' = [NewCompData(comp) EXCEPT !.features = Snippets(r.value)]
                 /\ pc' = "price"
                 /\ UNCHANGED <<competitors, idx, report>>
    /\ UNCHANGED <<product_name, avg_prices, chart, story, text, out>>

\* lines 60-68
SearchPrice ==
    /\ pc = "price"
    /\ \E o \in PriceOutcomes :
         LET comp == competitors[idx]
             r == tavily_search(o) IN
         /\ Call(price_query(comp), o)
         /\ IF r.raised THEN Propagate
            ELSE /\ returned' = Append(returned, r.value)
                 /\ comp_data' = [comp_data EXCEPT !.price = Snippets(r.value),
                                                   !.avg_price = AvgPrice(r.value)]
                 /\ pc' = "reviews"
                 /\ UNCHANGED <<competitors, idx, report>>
    /\ UNCHANGED <<product_name, avg_prices, chart, story, text, out>>

\* lines 70-74, and the loop's next step or line 76
SearchReviews ==
    /\ pc = "reviews"
    /\ \E o \in ReviewOutcomes :
         LET comp == competitors[idx]
             r == tavily_search(o) IN
         /\ Call(reviews_query(comp), o)
         /\ IF r.raised THEN Propagate
            ELSE /\ returned' = Append(returned, r.value)
                 /\ comp_data' = [comp_data EXCEPT !.reviews = Snippets(r.value)]
                 /\ report' = Append(report, comp_data')
                 /\ idx' = idx + 1
                 /\ pc' = IF idx = Len(competitors) THEN "display" ELSE "features"
                 /\ UNCHANGED competitors
    /\ UNCHANGED <<product_name, avg_prices, chart, story, text, out>>

\* lines 131-179: the panels, the bar chart, and the PDF for the download button
Display ==
    /\ pc = "display"
    /\ avg_prices' = AvgPrices(report)
    /\ chart' = BarChart(avg_prices')
    /\ story' = generate_pdf(report, product_name)
    /\ pc' = "done"
    /\ UNCHANGED <<product_name, calls, failed, response, returned, competitors, idx,
                   comp_data, report, text, out>>

Next ==
    \/ Click
    \/ SearchCompetitors
    \/ SearchFeatures
    \/ SearchPrice
    \/ SearchReviews
    \/ Display

Spec == Init /\ [][Next]_vars

---------------------------------------------------------------------------
(* Helper functions on their own: every text within the bounds *)

NameAlphabet == {"a", " ", "\t", "|", "-", ":"}
PriceAlphabet == {"0", "7", ",", "x"}

InitName ==
    /\ pc = "clean_name"
    /\ text \in SeqsUpTo(NameAlphabet, MaxNameLen)
    /\ out = None
    /\ product_name = <<>>
    /\ Fresh

\* out = clean_name(text)
CallCleanName ==
    /\ pc = "clean_name"
    /\ out' = Some(clean_name(text))
    /\ pc' = "clean_name_done"
    /\ UNCHANGED <<product_name, calls, failed, response, returned, competitors, idx,
                   comp_data, report, avg_prices, chart, story, text>>

NextName == CallCleanName

SpecName == InitName /\ [][NextName]_vars

InitPrice ==
    /\ pc = "extract_price"
    /\ text \in SeqsUpTo(PriceAlphabet, MaxPriceLen)
    /\ out = None
    /\ product_name = <<>>
    /\ Fresh

\* out = extract_price(text); the returned option is wrapped so that "not yet
\* called" and "returned None" differ
CallExtractPrice ==
    /\ pc = "extract_price"
    /\ out' = Some(extract_price(text))
    /\ pc' = "extract_price_done"
    /\ UNCHANGED <<product_name, calls, failed, response, returned, competitors, idx,
                   comp_data, report, avg_prices, chart, story, text>>

NextPrice == CallExtractPrice

SpecPrice == InitPrice /\ [][NextPrice]_vars

---------------------------------------------------------------------------
(* Properties *)

\* the positions, in the call log, of the three searches of the k-th competitor
FeaturesCall(k) == 3 * k - 1
PriceCall(k) == 3 * k
ReviewsCall(k) == 3 * k + 1

Returned(n) == IF n <= Len(returned) THEN returned[n] ELSE <<>>

\* the competitors whose three searches are over, and the one in progress
Running == pc \in {"features", "price", "reviews", "display", "done"}

(* C1: for every competitor of the report, avg_price is present if and only if
   extract_price returned an integer for the content of at least one result of
   that competitor's price query, and it is then the floor of the mean of all
   the integers extracted, an extracted 0 included. *)
C1_AvgPriceIsMeanOfAllExtracted ==
    \A k \in 1..Len(report) :
        LET results == Returned(PriceCall(k))
            extracted == [j \in 1..Len(results) |-> extract_price(results[j].content)]
            hits == {j \in 1..Len(results) : extracted[j] # None}
            values == SelectSeq(extracted, LAMBDA e : e # None)
            total == SumSeq([j \in 1..Len(values) |-> values[j][1]])
        IN  /\ (report[k].avg_price # None) <=> (hits # {})
            /\ hits # {} => report[k].avg_price = Some(total \div Cardinality(hits))

(* C2: whenever the provider call raises, tavily_search returns exactly one
   result, titled "Error", whose content is the failure message, and nothing
   propagates: whatever calls fail, the run never ends in an exception, every
   call hands a result list back, and a finished run holds a report with one
   entry per competitor. *)
C2_FailureGivesSentinelAndRunCompletes ==
    /\ pc # "raised"
    /\ Len(returned) = Len(calls)
    /\ Len(failed) = Len(calls)
    /\ (calls # <<>> /\ failed[Len(failed)]) =>
           /\ response.kind = "raise"
           /\ returned[Len(returned)] =
                  <<[title |-> <<"E", "r", "r", "o", "r">>, content |-> response.message]>>
    /\ pc = "done" => Len(report) = Len(competitors)

\* a finished run of three competitors in which some calls failed and some did not
C2_Witness ==
    /\ pc = "done"
    /\ Len(report) = 3
    /\ \E i, j \in 1..Len(failed) : failed[i] /\ ~failed[j]
    /\ failed[Len(failed)]

(* C3: the competitors, and the names of the report, are clean_name of the
   titles of the first min(3, n) results of the competitor query, in that order
   and with duplicates kept; the report never has more than 3 competitors. *)
C3_CompetitorsAreFirstThreeCleanedTitles ==
    Running =>
        LET data == returned[1]
            n == IF Len(data) < 3 THEN Len(data) ELSE 3
        IN  /\ competitors = [k \in 1..n |-> clean_name(data[k].title)]
            /\ Len(report) <= 3
            /\ \A k \in 1..Len(report) : report[k].name = clean_name(data[k].title)
            /\ pc \in {"display", "done"} => Len(report) = n

\* more than 3 results came back, and the first and third share a cleaned name
C3_Witness ==
    /\ pc = "done"
    /\ Len(returned[1]) > 3
    /\ Len(report) = 3
    /\ report[1].name = report[3].name
    /\ returned[1][1].title # returned[1][3].title

\* the calls a run makes, given its competitors
ExpectedCalls ==
    <<competitors_query(product_name)>>
    \o Flatten([k \in 1..Len(competitors) |->
                   << features_query(competitors[k]),
                      price_query(competitors[k]),
                      reviews_query(competitors[k]) >>])

(* C4: a run issues the competitor query, then for each competitor in report
   order its features, price and reviews queries, one at a time and nothing
   else: the calls made so far are always the first calls of that list, a
   finished run has made exactly 1 + 3 x (competitors in the report) of them,
   never more than 10, and a failed call is not issued again. *)
C4_CallsAreOnePlusThreePerCompetitor ==
    /\ Len(calls) <= 10
    /\ Running =>
           /\ Len(calls) <= Len(ExpectedCalls)
           /\ calls = SubSeq(ExpectedCalls, 1, Len(calls))
           /\ pc \in {"features", "price", "reviews"} => Len(calls) = 3 * (idx - 1) + 1 + 
                  (CASE pc = "features" -> 0 [] pc = "price" -> 1 [] pc = "reviews" -> 2)
    /\ pc \in {"display", "done"} =>
           /\ Len(calls) = 1 + 3 * Len(report)
           /\ calls = ExpectedCalls

\* a finished run of 10 calls, some of which failed
C4_Witness ==
    /\ pc = "done"
    /\ Len(calls) = 10
    /\ \E i \in 1..Len(failed) : failed[i]

\* the string stored for one result: title, ": ", the first min(120, length)
\* characters of the content
Stored(r) ==
    LET n == IF Len(r.content) < 120 THEN Len(r.content) ELSE 120
    IN  r.title \o <<":", " ">> \o [i \in 1..n |-> r.content[i]]

StoredAll(results) == [j \in 1..Len(results) |-> Stored(results[j])]

(* C5: each of a competitor's features, price and reviews lists holds, for
   each result of its query and in result order, the result's title, ": " and
   the first min(120, length) characters of its content; the content part of a
   stored string is never longer than 120 characters. *)
C5_StoredStringsAreTitleAndContentPrefix ==
    /\ \A k \in 1..Len(report) :
           /\ report[k].features = StoredAll(Returned(FeaturesCall(k)))
           /\ report[k].price = StoredAll(Returned(PriceCall(k)))
           /\ report[k].reviews = StoredAll(Returned(ReviewsCall(k)))
           /\ \A j \in 1..Len(report[k].reviews) :
                  Len(report[k].reviews[j]) <= Len(Returned(ReviewsCall(k))[j].title) + 2 + 120
    /\ pc \in {"price", "reviews"} =>
           /\ comp_data.features = StoredAll(Returned(FeaturesCall(idx)))
           /\ \A j \in 1..Len(comp_data.features) :
                  Len(comp_data.features[j]) <= Len(Returned(FeaturesCall(idx))[j].title) + 2 + 120
    /\ pc = "reviews" =>
           /\ comp_data.price = StoredAll(Returned(PriceCall(idx)))
           /\ \A j \in 1..Len(comp_data.price) :
                  Len(comp_data.price[j]) <= Len(Returned(PriceCall(idx))[j].title) + 2 + 120

\* a stored string whose result's content is longer than 120 characters
C5_Witness ==
    /\ pc = "done"
    /\ \E k \in 1..Len(report) : \E j \in 1..Len(report[k].features) :
           /\ Len(Returned(FeaturesCall(k))[j].content) > 120
           /\ Len(report[k].features[j]) = Len(Returned(FeaturesCall(k))[j].title) + 2 + 120

\* the value of a decimal numeral, digit by digit from the left
Decimal(ds) ==
    LET RECURSIVE Pow10(_)
        Pow10(e) == IF e = 0 THEN 1 ELSE 10 * Pow10(e - 1)
    IN  SumSeq([j \in 1..Len(ds) |-> DigitVal(ds[j]) * Pow10(Len(ds) - j)])

\* t with its commas removed: the characters of t that are not commas, in order
RECURSIVE WithoutCommas(_)
WithoutCommas(t) ==
    IF t = <<>> THEN <<>>
    ELSE IF t[Len(t)] = "," THEN WithoutCommas(SubSeq(t, 1, Len(t) - 1))
    ELSE Append(WithoutCommas(SubSeq(t, 1, Len(t) - 1)), t[Len(t)])

\* what C6 says extract_price(t) is
FirstDigitRun(t) ==
    LET s == WithoutCommas(t)
        pairs == {i \in 1..(Len(s) - 1) : s[i] \in Digits /\ s[i + 1] \in Digits}
    IN  IF pairs = {} THEN None
        ELSE LET i == CHOOSE a \in pairs : \A b \in pairs : a <= b
                 lens == {m \in 2..6 : i + m - 1 <= Len(s)
                                       /\ \A j \in i..(i + m - 1) : s[j] \in Digits}
                 m == CHOOSE a \in lens : \A b \in lens : b <= a
             IN  Some(Decimal(SubSeq(s, i, i + m - 1)))

(* C6: extract_price removes the commas and returns, as an integer, the
   leftmost run of 2 to 6 consecutive digits of what is left (as many digits as
   there are, up to 6), and None exactly when no two digits are adjacent there;
   "Rs. 12,500 only" gives 12500 and "no price listed" gives None. *)
C6_ExtractPriceIsFirstDigitRun ==
    /\ extract_price(<<"R", "s", ".", " ", "1", "2", ",", "5", "0", "0", " ", "o", "n", "l", "y">>) = Some(12500)
    /\ extract_price(<<"n", "o", " ", "p", "r", "i", "c", "e", " ", "l", "i", "s", "t", "e", "d">>) = None
    /\ pc = "extract_price_done" =>
           /\ out = Some(FirstDigitRun(text))
           /\ (out[1] = None) <=>
                  ~ \E i \in 1..(Len(WithoutCommas(text)) - 1) :
                        /\ WithoutCommas(text)[i] \in Digits
                        /\ WithoutCommas(text)[i + 1] \in Digits

\* a text whose digits are joined only once the comma is removed
C6_Witness ==
    /\ pc = "extract_price_done"
    /\ text = <<"x", "7", ",", "0", "0", "0">>
    /\ out = Some(Some(7000))

(* C7: clean_name returns the part of the text before the first '|', '-' or
   ':' (the whole text when there is none) with leading and trailing whitespace
   removed; the result holds none of the three characters, the empty text gives
   the empty string, and clean_name of the result is the result. *)
C7_CleanNameIsTrimmedFirstSegment ==
    /\ clean_name(<<>>) = <<>>
    /\ clean_name(<<"A", "c", "m", "e", " ", "W", "a", "t", "c", "h", " ", "X", " ", "|", " ", "B", "e", "s", "t", " ", "D", "e", "a", "l", "s", " ", "2", "0", "2", "5">>) = <<"A", "c", "m", "e", " ", "W", "a", "t", "c", "h", " ", "X">>
    /\ pc = "clean_name_done" =>
           LET r == out[1]
               seps == {i \in 1..Len(text) : text[i] \in {"|", "-", ":"}}
               cut == IF seps = {} THEN Len(text) + 1
                      ELSE CHOOSE a \in seps : \A b \in seps : a <= b
               inked == {i \in 1..(cut - 1) : text[i] \notin Whitespace}
           IN  /\ \A i \in 1..Len(r) : r[i] \notin {"|", "-", ":"}
               /\ IF inked = {} THEN r = <<>>
                  ELSE LET a == CHOOSE x \in inked : \A y \in inked : x <= y
                           b == CHOOSE x \in inked : \A y \in inked : y <= x
                       IN  r = [i \in 1..(b - a + 1) |-> text[a + i - 1]]
               /\ clean_name(r) = r

\* a title with whitespace on both sides of the name and a ':' after it
C7_Witness ==
    /\ pc = "clean_name_done"
    /\ text = <<" ", "a", "\t", ":">>
    /\ out = Some(<<"a">>)

\* what C8 says one competitor adds to the document
ExpectedBlock(comp) ==
    <<Paragraph(<<"U+1F50E">> \o <<" ", "C", "o", "m", "p", "e", "t", "i", "t", "o", "r", ":", " ">> \o comp.name, "Heading2")>>
    \o (IF comp.avg_price # None
        THEN <<Paragraph(<<"U+1F4B0">> \o <<" ", "E", "s", "t", "i", "m", "a", "t", "e", "d", " ", "A", "v", "g", " ", "P", "r", "i", "c", "e", ":", " ", "P", "K", "R", " ">>
                         \o FormatThousands(comp.avg_price[1]), "Normal")>>
        ELSE <<>>)
    \o <<Paragraph(<<"K", "e", "y", " ", "F", "e", "a", "t", "u", "r", "e", "s", ":">>, "Heading3")>>
    \o [j \in 1..Len(comp.features) |-> Paragraph(<<"U+2022", " ">> \o comp.features[j], "Normal")]
    \o <<Paragraph(<<"P", "r", "i", "c", "e", "s", ":">>, "Heading3")>>
    \o [j \in 1..Len(comp.price) |-> Paragraph(<<"U+2022", " ">> \o comp.price[j], "Normal")]
    \o <<Paragraph(<<"C", "u", "s", "t", "o", "m", "e", "r", " ", "R", "e", "v", "i", "e", "w", "s", ":">>, "Heading3")>>
    \o [j \in 1..Len(comp.reviews) |-> Paragraph(<<"U+2022", " ">> \o comp.reviews[j], "Normal")]
    \o <<Spacer>>

(* C8: for every report of market_research, generate_pdf emits the title
   heading and then, for each competitor in report order, a subheading with its
   name, a price line exactly when its avg_price is present, and the features,
   prices and reviews subsections in that order with one bullet per stored
   string in stored order. *)
C8_PdfFollowsReport ==
    pc = "done" =>
        /\ Len(story) >= 2
        /\ story[1].kind = "Paragraph" /\ story[1].style = "Heading1"
        /\ SubSeq(story, 3, Len(story)) = Flatten([k \in 1..Len(report) |-> ExpectedBlock(report[k])])
        /\ \A k \in 1..Len(report) : report[k].avg_price # Some(0)

\* a document for three competitors, with and without a price line
C8_Witness ==
    /\ pc = "done"
    /\ Len(report) = 3
    /\ report[1].avg_price = None
    /\ report[3].avg_price # None
    /\ \E i \in 1..Len(story) : story[i] = PriceLine(report[3])

(* C9: the bar chart has exactly one bar for each competitor of the report
   whose avg_price is present, labelled with the competitor's name and as high
   as its avg_price, also when two competitors share a cleaned name; it is
   omitted exactly when no competitor has an avg_price. *)
C9_OneBarPerPricedCompetitor ==
    pc = "done" =>
        LET priced == {k \in 1..Len(report) : report[k].avg_price # None}
        IN  /\ chart.drawn <=> (priced # {})
            /\ Len(chart.bars) = Cardinality(priced)
            /\ \A k \in priced : \E i \in 1..Len(chart.bars) :
                   /\ chart.bars[i].label = report[k].name
                   /\ chart.bars[i].height = report[k].avg_price[1]

(* C10: when the competitor query fails, the sentinel's title becomes the one
   competitor: the report holds exactly one competitor, named "Error", and the
   run makes exactly three more calls, its features, price and reviews queries,
   4 calls in all. *)
C10_FailedCompetitorQueryGivesErrorCompetitor ==
    (Running /\ failed[1]) =>
        /\ competitors = << <<"E", "r", "r", "o", "r">> >>
        /\ pc \in {"display", "done"} =>
               /\ Len(report) = 1
               /\ report[1].name = <<"E", "r", "r", "o", "r">>
               /\ Len(calls) = 4
               /\ calls[2] = <<"E", "r", "r", "o", "r", " ", "s", "m", "a", "r", "t", "w", "a", "t", "c", "h", " ", "f", "e", "a", "t", "u", "r", "e", "s", " ", "2", "0", "2", "5">>
               /\ calls[3] = <<"E", "r", "r", "o", "r", " ", "s", "m", "a", "r", "t", "w", "a", "t", "c", "h", " ", "p", "r", "i", "c", "e", " ", "i", "n", " ", "P", "a", "k", "i", "s", "t", "a", "n", " ", "2", "0", "2", "5", " ", "P", "K", "R">>
               /\ calls[4] = <<"E", "r", "r", "o", "r", " ", "s", "m", "a", "r", "t", "w", "a", "t", "c", "h", " ", "c", "u", "s", "t", "o", "m", "e", "r", " ", "r", "e", "v", "i", "e", "w", "s", " ", "2", "0", "2", "5">>

\* a finished run whose competitor query failed
C10_Witness ==
    /\ pc = "done"
    /\ failed[1]
    /\ Len(report) = 1

=============================================================================
